---- MODULE Spec2Model ----
(***************************************************************************)
(* A model of the cloze question/answer construction of VietLegalQA:       *)
(* the script AnswerExtractor (src/extractor.py) and the package           *)
(* QAConstruct (src/vietlegalqa/modules/construct).                         *)
(*                                                                         *)
(* A Python str is a sequence of one-character strings, indexed from 1     *)
(* here and from 0 in the source; the operators below return Python's      *)
(* 0-based indices.                                                        *)
(***************************************************************************)
EXTENDS Integers, Sequences, FiniteSets, TLC

VARIABLES
    pc,            \* position of the run: which statement is next
    args,          \* arguments of the function call being exercised
    ret,           \* values returned by the calls made so far
    path,          \* which entry point runs: "pos", "ne" (script) or "package"
    limit,         \* longest text the external annotator accepts
    data,          \* the input documents (self.data / the Document passed in)
    item,          \* index of the document being processed
    idx,           \* index of the summary sentence being processed
    spans,         \* candidate answers of the current summary sentence
    clauses,       \* clause list of the current summary sentence
    cand,          \* index of the candidate answer being processed
    summaries,     \* rendered summaries of the current document
    qas,           \* QA pairs of the current document
    cloze,         \* output records of the script run
    count,         \* the script's QA counter
    answer_start,  \* the script's local answer_start (Unbound before first assignment)
    output,        \* what to_json persisted (NoFile before)
    qa_data,       \* QAConstruct.data: the QADataset, in insertion order
    last,          \* outcome of the candidate or sentence handled last
    call,          \* which of the session's calls runs (0 before the first)
    history        \* what the finished calls wrote or returned, in order

vars == <<pc, args, ret, path, limit, data, item, idx, spans, clauses, cand,
          summaries, qas, cloze, count, answer_start, output, qa_data, last,
          call, history>>

funVars == <<pc, args, ret>>
runVars == <<path, limit, data, item, idx, spans, clauses, cand, summaries, qas,
             cloze, count, answer_start, output, qa_data, last, call, history>>

(***************************************************************************)
(* Python str operations                                                   *)
(***************************************************************************)
Min(S) == CHOOSE x \in S : \A y \in S : x <= y

\* s[i:j] for 0 <= i
Slice(s, i, j) == SubSeq(s, i + 1, IF j > Len(s) THEN Len(s) ELSE j)

\* str.find: the lowest 0-based index where sub occurs in s, or -1
Find(s, sub) ==
    LET hits == {i \in 0..(Len(s) - Len(sub)) : SubSeq(s, i + 1, i + Len(sub)) = sub}
    IN  IF hits = {} THEN -1 ELSE Min(hits)

\* `sub in s` on two str
Contains(s, sub) == Find(s, sub) # -1

\* str.replace(old, new, 1)
Replace1(s, old, new) ==
    LET i == Find(s, old)
    IN  IF i = -1 THEN s
        ELSE SubSeq(s, 1, i) \o new \o SubSeq(s, i + Len(old) + 1, Len(s))

RECURSIVE Join(_, _)
\* sep.join(parts)
Join(parts, sep) ==
    IF Len(parts) = 0 THEN <<>>
    ELSE IF Len(parts) = 1 THEN parts[1]
    ELSE parts[1] \o sep \o Join(Tail(parts), sep)

RECURSIVE SplitOn(_, _)
\* str.split(c) for a one-character separator: empty pieces are kept
SplitOn(s, c) ==
    LET i == Find(s, <<c>>)
    IN  IF i = -1 THEN <<s>>
        ELSE <<SubSeq(s, 1, i)>> \o SplitOn(SubSeq(s, i + 2, Len(s)), c)

IsSpace(c) == c = " "

RECURSIVE LStrip(_)
LStrip(s) == IF Len(s) > 0 /\ IsSpace(s[1]) THEN LStrip(Tail(s)) ELSE s

RECURSIVE RStrip(_)
RStrip(s) ==
    IF Len(s) > 0 /\ IsSpace(s[Len(s)]) THEN RStrip(SubSeq(s, 1, Len(s) - 1)) ELSE s

\* str.strip()
Strip(s) == LStrip(RStrip(s))

RECURSIVE SplitWords(_)
\* str.split() without argument: runs of whitespace separate, no empty pieces
SplitWords(s) ==
    LET t == LStrip(s)
        spaces == {i \in 1..Len(t) : IsSpace(t[i])}
        stop == IF spaces = {} THEN Len(t) + 1 ELSE Min(spaces)
    IN  IF Len(t) = 0 THEN <<>>
        ELSE <<SubSeq(t, 1, stop - 1)>> \o SplitWords(SubSeq(t, stop, Len(t)))

Digit(d) == <<"0", "1", "2", "3", "4", "5", "6", "7", "8", "9">>[d + 1]

RECURSIVE IntStr(_)
\* str(n) for n >= 0
IntStr(n) == IF n < 10 THEN <<Digit(n)>> ELSE IntStr(n \div 10) \o <<Digit(n % 10)>>

\* sorted(seq, key=...): Python's sort is stable, also with reverse=True.
\* Less(a, b) says that a's key orders strictly before b's.
StableSort(seq, Less(_, _)) ==
    LET n == Len(seq)
        place(i) == 1 + Cardinality({j \in 1..n :
                        \/ Less(seq[j], seq[i])
                        \/ (~Less(seq[i], seq[j]) /\ j < i)})
    IN  [p \in 1..n |-> seq[CHOOSE i \in 1..n : place(i) = p]]

(***************************************************************************)
(* The external annotator, as the code consumes it                         *)
(***************************************************************************)
\* The annotator rejects input longer than it can handle (it raises).
Rejects(text, lim) == Len(text) > lim

\* pipeline(text).sentences[0].words: one Word per whitespace-separated token,
\* its lemma being its text (the identity lemmatizer of the Vietnamese pipeline)
Words(text) ==
    LET toks == SplitWords(text)
    IN  [i \in 1..Len(toks) |-> [text |-> toks[i], lemma |-> toks[i]]]

\* pipeline(text).sentences[0] raises IndexError when there is no sentence
NoSentence(text) == Len(SplitWords(text)) = 0

(***************************************************************************)
(* ContextAligner: the script's AnswerExtractor.get_answer_start           *)
(***************************************************************************)
\* `word in self.STOPWORDS`: the caller passes the Word object, and a Word is
\* never equal to a str of the stop word list
WordEqualsStr(word, s) == FALSE

is_stop(word, STOPWORDS) == \E s \in STOPWORDS : WordEqualsStr(word, s)

Raised == [raised |-> TRUE]

\* q_tokens: the lemmas of the question's words that are not stop words
q_tokens_of(question, STOPWORDS) ==
    LET keep(w) == ~is_stop(w, STOPWORDS)
        kept == SelectSeq(Words(question), keep)
    IN  [i \in 1..Len(kept) |-> kept[i].lemma]

InList(x, list) == \E i \in 1..Len(list) : list[i] = x

\* score of one context segment: its words whose lemma is a question lemma
ScriptScore(ctx, q_tokens, STOPWORDS) ==
    LET ws == Words(ctx)
    IN  Cardinality({i \in 1..Len(ws) :
                        ~is_stop(ws[i], STOPWORDS) /\ InList(ws[i].lemma, q_tokens)})

\* answer_rank before sorting: one entry per segment that contains the answer,
\* in document order (seg is the segment's 1-based position, kept for reference)
ScriptRank(answer, question, context, STOPWORDS) ==
    LET q_tokens == q_tokens_of(question, STOPWORDS)
        hit == {i \in 1..Len(context) : Find(context[i], answer) # -1}
        RECURSIVE Build(_)
        Build(i) ==
            IF i > Len(context) THEN <<>>
            ELSE (IF i \in hit
                    THEN <<[score |-> ScriptScore(context[i], q_tokens, STOPWORDS),
                            context |-> context[i], seg |-> i]>>
                    ELSE <<>>) \o Build(i + 1)
    IN  Build(1)

\* a ranking left in document order
ScoreUnordered(a, b) == FALSE

ScoreAscending(a, b) == a.score < b.score

ScriptSorted(answer, question, context, STOPWORDS) ==
    StableSort(ScriptRank(answer, question, context, STOPWORDS), ScoreAscending)

\* whether a call of the annotator inside get_answer_start raises
ScriptAlignRaises(answer, question, context, lim) ==
    \/ Rejects(question, lim) \/ NoSentence(question)
    \/ \E i \in 1..Len(context) :
          /\ Find(context[i], answer) # -1
          /\ (Rejects(context[i], lim) \/ NoSentence(context[i]))

ScriptOffset(answer, refined_answer, context) ==
    Find(Join(context, <<" ">>), refined_answer) + Find(refined_answer, answer)

get_answer_start_script(answer, question, context, STOPWORDS, lim) ==
    IF ScriptAlignRaises(answer, question, context, lim) THEN Raised
    ELSE LET answer_rank == ScriptSorted(answer, question, context, STOPWORDS)
         IN  IF Len(answer_rank) # 0
               THEN [raised |-> FALSE,
                     start |-> ScriptOffset(answer, answer_rank[1].context, context)]
               ELSE [raised |-> FALSE, start |-> -1]

(***************************************************************************)
(* ContextAligner: the package's construct.utils.get_answer_start          *)
(***************************************************************************)
\* score of one context segment: the question lemmas (with repetitions) that
\* occur in the segment's text as substrings
PkgScore(ctx, q_tokens) ==
    Cardinality({i \in 1..Len(q_tokens) : Contains(ctx, q_tokens[i])})

\* a ranking whose start is the answer's position in the joined context
PkgRankJoined(answer, question, context, STOPWORDS) ==
    LET q_tokens == q_tokens_of(question, STOPWORDS)
    IN  [i \in 1..Len(context) |->
            [id |-> i - 1,
             score |-> PkgScore(context[i], q_tokens),
             start |-> Find(Join(context, <<" ">>), answer)]]

\* context_rank before sorting: one entry for every segment of the article
PkgRank(answer, question, context, STOPWORDS) ==
    LET q_tokens == q_tokens_of(question, STOPWORDS)
    IN  [i \in 1..Len(context) |->
            [id |-> i - 1,
             score |-> PkgScore(context[i], q_tokens),
             start |-> Find(context[i], answer)]]

ScoreDescending(a, b) == a.score > b.score

PkgSorted(answer, question, context, STOPWORDS) ==
    StableSort(PkgRank(answer, question, context, STOPWORDS), ScoreDescending)

\* the annotator call on the question raises, or context_rank[0] of an empty
\* ranking raises IndexError
PkgAlignRaises(question, context, lim) ==
    \/ Rejects(question, lim) \/ NoSentence(question)
    \/ Len(context) = 0

get_answer_start_pkg(answer, question, context, STOPWORDS, lim) ==
    IF PkgAlignRaises(question, context, lim) THEN Raised
    ELSE LET context_rank == PkgSorted(answer, question, context, STOPWORDS)
         IN  [raised |-> FALSE, id |-> context_rank[1].id,
              start |-> context_rank[1].start]

(***************************************************************************)
(* Constituency trees: a node is [label, children]; a leaf has no children *)
(* and its label is the word                                               *)
(***************************************************************************)
Leaf(word) == [label |-> word, children |-> <<>>]
Node(label, children) == [label |-> label, children |-> children]

is_leaf(node) == Len(node.children) = 0

RECURSIVE leaf_labels(_)
leaf_labels(node) ==
    LET RECURSIVE Over(_)
        Over(kids) == IF Len(kids) = 0 THEN <<>>
                      ELSE leaf_labels(kids[1]) \o Over(Tail(kids))
    IN  IF is_leaf(node) THEN <<node.label>> ELSE Over(node.children)

Lowercase == <<"a", "b", "c", "d", "e", "f", "g", "h", "i", "j", "k", "l", "m",
               "n", "o", "p", "q", "r", "s", "t", "u", "v", "w", "x", "y", "z">>
Uppercase == <<"A", "B", "C", "D", "E", "F", "G", "H", "I", "J", "K", "L", "M",
               "N", "O", "P", "Q", "R", "S", "T", "U", "V", "W", "X", "Y", "Z">>

\* str.upper()
Upper(s) ==
    [i \in 1..Len(s) |->
        IF \E k \in 1..26 : Lowercase[k] = s[i]
          THEN Uppercase[CHOOSE k \in 1..26 : Lowercase[k] = s[i]]
          ELSE s[i]]

\* tree_to_text(tree, sep)
tree_to_text(tree, sep) == Join(leaf_labels(tree), sep)

(***************************************************************************)
(* ClauseExtractor: the script's extract_s_clauses, extract_comma_clauses  *)
(* and extract_clauses                                                     *)
(***************************************************************************)
S_THRESHOLD == 3
COMMA_THRESHOLD == 5
COMMA_MIN_CHARS == 10

RECURSIVE extract_s_clauses_inclusive(_, _)
\* the threshold taken inclusively: a subtree of exactly threshold leaves counts
extract_s_clauses_inclusive(node, threshold) ==
    LET RECURSIVE Over(_)
        Over(kids) == IF Len(kids) = 0 THEN <<>>
                      ELSE extract_s_clauses_inclusive(kids[1], threshold)
                           \o Over(Tail(kids))
    IN  IF is_leaf(node) THEN <<>>
        ELSE Over(node.children)
             \o (IF node.label = <<"S">> /\ Len(leaf_labels(node)) >= threshold
                   THEN <<Strip(Join(leaf_labels(node), <<" ">>))>>
                   ELSE <<>>)

RECURSIVE extract_s_clauses(_, _)
\* children first, then the node itself
extract_s_clauses(node, threshold) ==
    LET RECURSIVE Over(_)
        Over(kids) == IF Len(kids) = 0 THEN <<>>
                      ELSE extract_s_clauses(kids[1], threshold) \o Over(Tail(kids))
    IN  IF is_leaf(node) THEN <<>>
        ELSE Over(node.children)
             \o (IF node.label = <<"S">> /\ Len(leaf_labels(node)) > threshold
                   THEN <<Strip(Join(leaf_labels(node), <<" ">>))>>
                   ELSE <<>>)

\* the inner while loop: the running clause takes the fragments from position
\* i (0-based) on while it is shorter than COMMA_MIN_CHARS characters
RECURSIVE ScriptMerge(_, _, _)
ScriptMerge(clause, i, comma_clauses) ==
    IF Len(clause) < COMMA_MIN_CHARS /\ i < Len(comma_clauses)
      THEN ScriptMerge(Join(<<Strip(clause), Strip(comma_clauses[i + 1])>>, <<",", " ">>),
                       i + 1, comma_clauses)
      ELSE [clause |-> clause, idx |-> i]

\* the for loop over the fragments: k is the 1-based position of the fragment
\* the loop is at, i the shared counter idx, which the inner loop advances too
RECURSIVE ScriptCommaLoop(_, _, _)
ScriptCommaLoop(k, i, comma_clauses) ==
    IF k > Len(comma_clauses) THEN <<>>
    ELSE LET m == ScriptMerge(comma_clauses[k], i + 1, comma_clauses)
         IN  <<m.clause>> \o ScriptCommaLoop(k + 1, m.idx, comma_clauses)

\* the test for more than one fragment left out
extract_comma_clauses_unguarded(tree) ==
    ScriptCommaLoop(1, 0, SplitOn(Join(leaf_labels(tree), <<" ">>), ","))

extract_comma_clauses(tree) ==
    LET comma_clauses == SplitOn(Join(leaf_labels(tree), <<" ">>), ",")
    IN  IF Len(comma_clauses) > 1 THEN ScriptCommaLoop(1, 0, comma_clauses) ELSE <<>>

ShorterFirst(a, b) == Len(a) < Len(b)
LongerFirst(a, b) == Len(a) > Len(b)

RECURSIVE ScriptClausesOf(_)
ScriptClausesOf(sentences) ==
    IF Len(sentences) = 0 THEN <<>>
    ELSE extract_s_clauses(sentences[1].constituency, S_THRESHOLD)
         \o extract_comma_clauses(sentences[1].constituency)
         \o ScriptClausesOf(Tail(sentences))

extract_clauses_script(nlp) == StableSort(ScriptClausesOf(nlp.sentences), ShorterFirst)

(***************************************************************************)
(* ClauseExtractor: the package's extract_clauses_constituent,             *)
(* extract_clauses_comma and extract_clauses                               *)
(***************************************************************************)
RECURSIVE extract_clauses_constituent(_, _, _)
\* the node itself first, then its children
extract_clauses_constituent(node, threshold, sep) ==
    LET RECURSIVE Over(_)
        Over(kids) == IF Len(kids) = 0 THEN <<>>
                      ELSE extract_clauses_constituent(kids[1], threshold, sep)
                           \o Over(Tail(kids))
    IN  IF is_leaf(node) THEN <<>>
        ELSE (IF node.label = <<"S">> /\ Len(leaf_labels(node)) > threshold
                THEN <<tree_to_text(node, sep)>>
                ELSE <<>>)
             \o Over(node.children)

\* repr() of a str without quote characters in it
ReprStr(s) == <<"'">> \o s \o <<"'">>

\* f"{next_clause}" where next_clause is the pair (j, text) that enumerate yields
FormatPair(j, text) == <<"(">> \o IntStr(j) \o <<",", " ">> \o ReprStr(text) \o <<")">>

\* the inner for loop over enumerate(comma_clauses[idx + 1:]), from its j-th pair
RECURSIVE PkgMerge(_, _, _, _)
PkgMerge(clause, j, rest, threshold) ==
    IF j >= Len(rest) THEN clause
    ELSE IF Len(SplitWords(clause)) < threshold
      THEN PkgMerge(clause \o <<" ", ",", " ">> \o FormatPair(j, rest[j + 1]),
                    j + 1, rest, threshold)
      ELSE clause

extract_clauses_comma(sent, threshold) ==
    LET parts == SplitOn(sent, ",")
        comma_clauses == [i \in 1..Len(parts) |-> Strip(parts[i])]
        n == Len(comma_clauses)
    IN  IF n > 1
          THEN [i \in 1..n |->
                  PkgMerge(comma_clauses[i], 0, SubSeq(comma_clauses, i + 1, n), threshold)]
          ELSE <<>>

\* sent.text of a sentence the annotator built from tokens: the tokens joined
\* by single spaces
SentText(sent) == Join(leaf_labels(sent.constituency), <<" ">>)

RECURSIVE PkgClausesOf(_, _, _, _)
PkgClausesOf(sentences, s_threshold, comma_threshold, sep) ==
    IF Len(sentences) = 0 THEN <<>>
    ELSE extract_clauses_constituent(sentences[1].constituency, s_threshold, sep)
         \o extract_clauses_comma(SentText(sentences[1]), comma_threshold)
         \o PkgClausesOf(Tail(sentences), s_threshold, comma_threshold, sep)

extract_clauses_pkg(nlp, s_threshold, comma_threshold, sep) ==
    StableSort(PkgClausesOf(nlp.sentences, s_threshold, comma_threshold, sep), LongerFirst)

(***************************************************************************)
(* SpanExtractor: the script's extract_pos / extract_pos_answers and the   *)
(* package's get_pos / get_keys                                            *)
(***************************************************************************)
\* only the root is looked at: nested matches are lost
extract_pos_root(node, pos_tag) ==
    IF is_leaf(node) \/ pos_tag # Upper(node.label) THEN <<>>
    ELSE <<Join(leaf_labels(node), <<" ">>)>>

RECURSIVE extract_pos(_, _)
\* children first, then the node itself
extract_pos(node, pos_tag) ==
    LET RECURSIVE Over(_)
        Over(kids) == IF Len(kids) = 0 THEN <<>>
                      ELSE extract_pos(kids[1], pos_tag) \o Over(Tail(kids))
    IN  IF is_leaf(node) THEN <<>>
        ELSE Over(node.children)
             \o (IF pos_tag = Upper(node.label)
                   THEN <<Join(leaf_labels(node), <<" ">>)>>
                   ELSE <<>>)

RECURSIVE extract_pos_answers(_, _)
extract_pos_answers(sentences, pos_tag) ==
    IF Len(sentences) = 0 THEN <<>>
    ELSE extract_pos(sentences[1].constituency, pos_tag)
         \o extract_pos_answers(Tail(sentences), pos_tag)

RECURSIVE get_pos(_, _, _)
\* the node itself first, then its children
get_pos(node, pos_tag, sep) ==
    LET RECURSIVE Over(_)
        Over(kids) == IF Len(kids) = 0 THEN <<>>
                      ELSE get_pos(kids[1], pos_tag, sep) \o Over(Tail(kids))
    IN  IF is_leaf(node) THEN <<>>
        ELSE (IF pos_tag = Upper(node.label)
                THEN <<tree_to_text(node, sep)>>
                ELSE <<>>)
             \o Over(node.children)

RECURSIVE get_keys(_, _)
get_keys(sentences, pos_tag) ==
    IF Len(sentences) = 0 THEN <<>>
    ELSE get_pos(sentences[1].constituency, pos_tag, <<" ">>)
         \o get_keys(Tail(sentences), pos_tag)

(***************************************************************************)
(* Rendering of a parsed summary                                           *)
(***************************************************************************)
RECURSIVE RenderSentences(_)
RenderSentences(sentences) ==
    IF Len(sentences) = 0 THEN <<>>
    ELSE Join(leaf_labels(sentences[1].constituency), <<" ">>) \o <<" ">>
         \o RenderSentences(Tail(sentences))

\* the script's get_summary: every sentence's leaves joined by spaces, then strip()
get_summary(nlp) == Strip(RenderSentences(nlp.sentences))

\* the package's get_summary_nlp
get_summary_nlp(nlp) ==
    Join([i \in 1..Len(nlp.sentences) |->
            tree_to_text(nlp.sentences[i].constituency, <<" ">>)], <<" ">>)

\* sent.tokens[-1].end_char of sentence k: the sentences lie in the summary text
\* one after the other, a single space apart
RECURSIVE SentEndChar(_, _)
SentEndChar(sentences, k) ==
    IF k = 1 THEN Len(SentText(sentences[1]))
    ELSE SentEndChar(sentences, k - 1) + 1 + Len(SentText(sentences[k]))

(***************************************************************************)
(* QuestionSynthesizer                                                     *)
(***************************************************************************)
PLACEHOLDER == <<"P", "L", "A", "C", "E", "H", "O", "L", "D", "E", "R">>
TagNUM == <<"N", "U", "M">>
TagNP == <<"N", "P">>
TagAP == <<"A", "P">>
TagVP == <<"V", "P">>
TagS == <<"S">>
TagNE == <<"N", "E">>

\* construct/utils.py POS_TAGS and POS_REPLACE
POS_TAGS == <<TagNUM, TagNP, TagAP, TagVP, TagS>>
POS_REPLACE(tag) ==
    CASE tag = TagNUM -> <<"N", "U", "M", "B", "E", "R">>
      [] tag = TagNP -> <<"N", "O", "U", "N", "P", "H", "R", "A", "S", "E">>
      [] tag = TagAP -> <<"A", "D", "V", "P", "H", "R", "A", "S", "E">>
      [] tag = TagVP -> <<"V", "E", "R", "B", "P", "H", "A", "R", "S", "E">>
      [] tag = TagS -> <<"C", "L", "A", "U", "S", "E">>

NoQuestion == [found |-> FALSE]
\* a question, with the clause or sentence text it was built from
Question(q) == [found |-> TRUE, text |-> q.text, from |-> q.from, source |-> q.source]

\* the clauses that contain the answer, each with the answer's first occurrence
\* replaced by label, in the order of the clause list
ClauseQuestions(answer, label, clause_list) ==
    LET hits == SelectSeq(clause_list, LAMBDA c : Find(c, answer) # -1)
    IN  [i \in 1..Len(hits) |->
            [text |-> Replace1(hits[i], answer, label), from |-> "clause",
             source |-> hits[i]]]

\* script, span path: the first clause containing the answer, PLACEHOLDER put in
ScriptPosQuestion(answer, clause_list) ==
    LET qs == ClauseQuestions(answer, PLACEHOLDER, clause_list)
    IN  IF Len(qs) = 0 \/ Len(qs[1].text) = 0 THEN NoQuestion ELSE Question(qs[1])

\* the sentences whose last token ends at or after the entity's end, each
\* rendered with the entity's first occurrence replaced by its type
FallbackQuestions(ent, sentences) ==
    LET ks == SelectSeq([k \in 1..Len(sentences) |-> k],
                        LAMBDA k : ent.end_char <= SentEndChar(sentences, k))
    IN  [i \in 1..Len(ks) |->
            LET sent_text == Join(leaf_labels(sentences[ks[i]].constituency), <<" ">>)
            IN  [text |-> Replace1(sent_text, ent.text, ent.type), from |-> "sentence",
                 source |-> sent_text]]

\* script, entity path: clause.replace(answer.text, answer.text, 1) on the first
\* clause containing the entity, else the fallback sentence
ScriptNeQuestion(ent, clause_list, sentences) ==
    LET qs == ClauseQuestions(ent.text, ent.text, clause_list)
        fb == FallbackQuestions(ent, sentences)
    IN  IF Len(qs) # 0 /\ Len(qs[1].text) # 0 THEN Question(qs[1])
        ELSE IF Len(fb) # 0 /\ Len(fb[1].text) # 0 THEN Question(fb[1])
        ELSE NoQuestion

\* package, entity path
PkgNeQuestion(ent, clause_list, sentences) ==
    LET qs == ClauseQuestions(ent.text, ent.type, clause_list)
        fb == FallbackQuestions(ent, sentences)
    IN  IF Len(qs) # 0 THEN Question(qs[1])
        ELSE IF Len(fb) # 0 THEN Question(fb[1])
        ELSE NoQuestion

\* package, span path
PkgPosQuestion(answer, tag, clause_list) ==
    LET qs == ClauseQuestions(answer, POS_REPLACE(tag), clause_list)
    IN  IF Len(qs) = 0 THEN NoQuestion ELSE Question(qs[1])

(***************************************************************************)
(* Values that stand for "nothing yet"                                     *)
(***************************************************************************)
NotCalled == [called |-> FALSE]
Unbound == [bound |-> FALSE]
NoFile == [written |-> FALSE]
Idle == [kind |-> "none"]

\* the run variables while a single function is exercised
RunIdle ==
    /\ path = "none" /\ limit = 0 /\ data = <<>> /\ item = 0 /\ idx = 0
    /\ spans = <<>> /\ clauses = <<>> /\ cand = 0 /\ summaries = <<>> /\ qas = <<>>
    /\ cloze = <<>> /\ count = 0 /\ answer_start = Unbound /\ output = NoFile
    /\ qa_data = <<>> /\ last = Idle /\ call = 0 /\ history = <<>>

(***************************************************************************)
(* The aligners exercised as functions                                     *)
(***************************************************************************)
MaxSegs == 2
ShortLimit == 2
NoLimit == 40

ExSeg1 == <<"O", "n", "g", " ", "A", " ", "b", "i", " ", "p", "h", "a", "t", " ", "5", " ", "n", "a", "m", " ", "t", "u", " ", ".">>
ExSeg2 == <<"O", "n", "g", " ", "A", " ", "k", "h", "a", "n", "g", " ", "c", "a", "o", " ", ".">>
ExAnswer == <<"5", " ", "n", "a", "m", " ", "t", "u">>
ExQuestion == <<"O", "n", "g", " ", "A", " ", "b", "i", " ", "p", "h", "a", "t", " ", "P", "L", "A", "C", "E", "H", "O", "L", "D", "E", "R", " ", ".">>
ExKhang == <<"k", "h", "a", "n", "g">>

AlignSegments ==
    {<<"a">>, <<"b">>, <<"b", "a">>, <<"a", " ", "b">>, <<"b", " ", "b">>}
AlignAnswers == {<<"a">>, <<"b">>, <<"b", "a">>, ExAnswer}
AlignQuestions ==
    {<<"a">>, <<"b">>, <<"b", "a">>, <<"b", " ", "b">>, <<" ">>, ExQuestion, ExKhang}
AlignStopwords == {{}, {<<"a">>}, {<<"b">>, ExKhang}}

SeqsUpTo(S, n) == UNION {[1..k -> S] : k \in 0..n}

\* every list of up to MaxSegs short segments, and the lists of the two example
\* segments
AlignContexts ==
    SeqsUpTo(AlignSegments, MaxSegs)
    \cup {<<ExSeg1>>, <<ExSeg2>>, <<ExSeg1, ExSeg2>>, <<ExSeg2, ExSeg1>>}

InitAlign ==
    /\ pc = "align"
    /\ args \in [answer : AlignAnswers, question : AlignQuestions,
                 context : AlignContexts,
                 STOPWORDS : AlignStopwords, lim : {ShortLimit, NoLimit}]
    /\ ret = [script |-> NotCalled, package |-> NotCalled]
    /\ RunIdle

CallScriptAligner ==
    /\ pc = "align" /\ ret.script = NotCalled
    /\ ret' = [ret EXCEPT !.script =
            get_answer_start_script(args.answer, args.question, args.context,
                                    args.STOPWORDS, args.lim)]
    /\ UNCHANGED <<pc, args>> /\ UNCHANGED runVars

CallPkgAligner ==
    /\ pc = "align" /\ ret.package = NotCalled
    /\ ret' = [ret EXCEPT !.package =
            get_answer_start_pkg(args.answer, args.question, args.context,
                                 args.STOPWORDS, args.lim)]
    /\ UNCHANGED <<pc, args>> /\ UNCHANGED runVars

NextAlign == CallScriptAligner \/ CallPkgAligner

SpecAlign == InitAlign /\ [][NextAlign]_vars

(***************************************************************************)
(* Properties of the aligners (under SpecAlign)                            *)
(***************************************************************************)
ScriptReturned == pc = "align" /\ ret.script # NotCalled /\ ~ret.script.raised
PkgReturned == pc = "align" /\ ret.package # NotCalled /\ ~ret.package.raised

NoSegmentContains(answer, context) ==
    \A i \in 1..Len(context) : ~Contains(context[i], answer)

\* 0-based position of segment k (1-based) inside " ".join(context): the
\* lengths of the earlier segments plus one separator each
RECURSIVE SegmentStart(_, _)
SegmentStart(context, k) ==
    IF k <= 1 THEN 0 ELSE SegmentStart(context, k - 1) + Len(context[k - 1]) + 1

\* C3: the aligner returns -1 if and only if no context segment contains the
\* answer as a literal substring, for the script aligner and for the package
\* aligner alike.
C3_MinusOneIffNoSegment ==
    /\ ScriptReturned =>
          (ret.script.start = -1 <=> NoSegmentContains(args.answer, args.context))
    /\ PkgReturned =>
          (ret.package.start = -1 <=> NoSegmentContains(args.answer, args.context))

\* C4: when a segment is chosen, the returned offset is the position of that
\* segment in the joined context (lengths of all earlier segments plus one
\* separator each) plus the index of the first occurrence of the answer inside
\* the segment, for every segment list.
C4_OffsetIsSegmentStartPlusIndex ==
    /\ ScriptReturned =>
          LET rank == ScriptSorted(args.answer, args.question, args.context,
                                   args.STOPWORDS)
          IN  Len(rank) # 0 =>
                ret.script.start = SegmentStart(args.context, rank[1].seg)
                                   + Find(args.context[rank[1].seg], args.answer)
    /\ PkgReturned /\ ret.package.start # -1 =>
          LET k == ret.package.id + 1
          IN  ret.package.start = SegmentStart(args.context, k)
                                  + Find(args.context[k], args.answer)

\* C5: for the context segments "Ong A bi phat 5 nam tu ." and
\* "Ong A khang cao ." and the answer "5 nam tu" the aligner returns offset 14,
\* whatever the question and the stop word list.
C5_ExampleOffset14 ==
    (args.context = <<ExSeg1, ExSeg2>> /\ args.answer = ExAnswer) =>
        /\ ScriptReturned => ret.script.start = 14
        /\ PkgReturned => ret.package.start = 14

(***************************************************************************)
(* Parsed sentences used as inputs                                         *)
(***************************************************************************)
\* words (leaf labels)
Wa == <<"a">>
Wb == <<"b">>
Wc == <<"c">>
Wd == <<"d">>
We == <<"e">>
Wcomma == <<",">>
Wlonger == <<"l", "o", "n", "g", "e", "r">>
Wfragment == <<"f", "r", "a", "g", "m", "e", "n", "t">>
Where == <<"h", "e", "r", "e">>
Wab == <<"a", ",", "b">>
Wlong == <<"a", "b", "c", "d", "e", "f", "g", "h", "i", "j", "k">>

\* labels
LS == <<"S">>
LNP == <<"N", "P">>
LVP == <<"V", "P">>
Lnp == <<"n", "p">>

\* a single leaf, without and with a comma inside its text
TreeLeaf == Leaf(Wa)
TreeLeafComma == Leaf(Wab)
\* (S (NP a) (VP b)): two leaves
TreeS2 == Node(LS, <<Node(LNP, <<Leaf(Wa)>>), Node(LVP, <<Leaf(Wb)>>)>>)
\* (S (NP a) (VP b c)): exactly S_THRESHOLD leaves
TreeS3 == Node(LS, <<Node(LNP, <<Leaf(Wa)>>), Node(LVP, <<Leaf(Wb), Leaf(Wc)>>)>>)
\* (S (NP a) (VP b (NP (np c) d))): four leaves, nested noun phrases
TreeS4 ==
    Node(LS, <<Node(LNP, <<Leaf(Wa)>>),
               Node(LVP, <<Leaf(Wb),
                           Node(LNP, <<Node(Lnp, <<Leaf(Wc)>>), Leaf(Wd)>>)>>)>>)
\* (S (S a b c d) , (S a b c d e)): nested clauses around a comma
TreeNested ==
    Node(LS, <<Node(LS, <<Leaf(Wa), Leaf(Wb), Leaf(Wc), Leaf(Wd)>>),
               Leaf(Wcomma),
               Node(LS, <<Leaf(Wa), Leaf(Wb), Leaf(Wc), Leaf(Wd), Leaf(We)>>)>>)
\* (S a , longer fragment here)
TreeMerge ==
    Node(LS, <<Leaf(Wa), Leaf(Wcomma), Leaf(Wlonger), Leaf(Wfragment), Leaf(Where)>>)
\* (S a , b , c)
TreeCommas ==
    Node(LS, <<Leaf(Wa), Leaf(Wcomma), Leaf(Wb), Leaf(Wcomma), Leaf(Wc)>>)
\* (NP abcdefghijk , b)
TreeLong == Node(LNP, <<Leaf(Wlong), Leaf(Wcomma), Leaf(Wb)>>)

TreePool == {TreeLeaf, TreeLeafComma, TreeS2, TreeS3, TreeS4, TreeNested,
             TreeMerge, TreeCommas, TreeLong}

Sentence(tree) == [constituency |-> tree]

(***************************************************************************)
(* The clause extractors exercised as functions                            *)
(***************************************************************************)
MaxSents == 2

ParsedDocs ==
    {[sentences |-> ss] :
        ss \in UNION {[1..k -> {Sentence(tr) : tr \in TreePool}] : k \in 1..MaxSents}}

InitClause ==
    /\ pc = "clause"
    /\ args \in [nlp : ParsedDocs]
    /\ ret = [script |-> NotCalled, package |-> NotCalled,
              script_comma |-> NotCalled, package_comma |-> NotCalled]
    /\ RunIdle

CallScriptClauses ==
    /\ pc = "clause" /\ ret.script = NotCalled
    /\ ret' = [ret EXCEPT !.script = [clauses |-> extract_clauses_script(args.nlp)]]
    /\ UNCHANGED <<pc, args>> /\ UNCHANGED runVars

CallPkgClauses ==
    /\ pc = "clause" /\ ret.package = NotCalled
    /\ ret' = [ret EXCEPT !.package =
            [clauses |-> extract_clauses_pkg(args.nlp, S_THRESHOLD, COMMA_THRESHOLD,
                                             <<" ">>)]]
    /\ UNCHANGED <<pc, args>> /\ UNCHANGED runVars

CallScriptComma ==
    /\ pc = "clause"
    /\ \E k \in 1..Len(args.nlp.sentences) :
          /\ ret.script_comma # NotCalled => ret.script_comma.sent # k
          /\ ret' = [ret EXCEPT !.script_comma =
                [sent |-> k,
                 clauses |-> extract_comma_clauses(args.nlp.sentences[k].constituency)]]
    /\ UNCHANGED <<pc, args>> /\ UNCHANGED runVars

CallPkgComma ==
    /\ pc = "clause"
    /\ \E k \in 1..Len(args.nlp.sentences) :
          /\ ret.package_comma # NotCalled => ret.package_comma.sent # k
          /\ ret' = [ret EXCEPT !.package_comma =
                [sent |-> k,
                 clauses |-> extract_clauses_comma(SentText(args.nlp.sentences[k]),
                                                   COMMA_THRESHOLD)]]
    /\ UNCHANGED <<pc, args>> /\ UNCHANGED runVars

NextClause ==
    CallScriptClauses \/ CallPkgClauses \/ CallScriptComma \/ CallPkgComma

SpecClause == InitClause /\ [][NextClause]_vars

(***************************************************************************)
(* Properties of the clause extractors (under SpecClause)                  *)
(***************************************************************************)
NonDecreasingLength(list) ==
    \A i \in 1..(Len(list) - 1) : Len(list[i]) <= Len(list[i + 1])

\* C6: the clause list returned by the clause extractor, script and package
\* alike, is ordered by non-decreasing string length.
C6_ClausesShortestFirst ==
    pc = "clause" =>
        /\ ret.script # NotCalled => NonDecreasingLength(ret.script.clauses)
        /\ ret.package # NotCalled => NonDecreasingLength(ret.package.clauses)

WordCount(text) == Len(SplitWords(text))

NonFinalReachThreshold(list) ==
    \A i \in 1..(Len(list) - 1) : WordCount(list[i]) >= COMMA_THRESHOLD

\* C7: every clause the comma-merge pass emits, except the last one emitted,
\* has at least comma_threshold words.
C7_NonFinalFragmentsReachThreshold ==
    pc = "clause" =>
        /\ ret.script_comma # NotCalled =>
              NonFinalReachThreshold(ret.script_comma.clauses)
        /\ ret.package_comma # NotCalled =>
              NonFinalReachThreshold(ret.package_comma.clauses)

\* the comma-separated fragments of a text, stripped
Fragments(text) ==
    LET parts == SplitOn(text, ",") IN [i \in 1..Len(parts) |-> Strip(parts[i])]

RECURSIVE FragmentsOfAll(_)
FragmentsOfAll(list) ==
    IF Len(list) = 0 THEN <<>> ELSE Fragments(list[1]) \o FragmentsOfAll(Tail(list))

MergeExampleText == <<"a", " ", ",", " ", "l", "o", "n", "g", "e", "r", " ", "f", "r", "a", "g", "m", "e", "n", "t", " ", "h", "e", "r", "e">>
MergeExampleClause == <<"a", ",", " ", "l", "o", "n", "g", "e", "r", " ", "f", "r", "a", "g", "m", "e", "n", "t", " ", "h", "e", "r", "e">>

\* the emitted clauses are the fragments of the sentence, each in exactly one
\* clause and in order, merged fragments joined by commas
ConsumesFragments(list, text) ==
    /\ Len(Fragments(text)) > 1 => FragmentsOfAll(list) = Fragments(text)
    /\ text = MergeExampleText => list = <<MergeExampleClause>>

\* C8: comma-merge consumes fragments: each comma-separated fragment of the
\* sentence appears in exactly one emitted clause, and the fragments "a" and
\* "longer fragment here" yield exactly the one clause "a, longer fragment here".
C8_CommaMergeConsumes ==
    pc = "clause" =>
        /\ ret.script_comma # NotCalled =>
              ConsumesFragments(ret.script_comma.clauses,
                                SentText(args.nlp.sentences[ret.script_comma.sent]))
        /\ ret.package_comma # NotCalled =>
              ConsumesFragments(ret.package_comma.clauses,
                                SentText(args.nlp.sentences[ret.package_comma.sent]))

(***************************************************************************)
(* The extraction runs: AnswerExtractor.extract_answer (script) and        *)
(* QAConstruct.__call__ (package)                                          *)
(***************************************************************************)
MaxDocs == 2
MidLimit == 16

Wx == <<"x">>
TypePERSON == <<"P", "E", "R", "S", "O", "N">>
TypeORG == <<"O", "R", "G">>

\* (S (NP a b) (VP c (NP d)))
TreeStale ==
    Node(LS, <<Node(LNP, <<Leaf(Wa), Leaf(Wb)>>),
               Node(LVP, <<Leaf(Wc), Node(LNP, <<Leaf(Wd)>>)>>)>>)

\* (NP a , b)
TreePair == Node(LNP, <<Leaf(Wa), Leaf(Wcomma), Leaf(Wb)>>)

Entity(text, type, end_char) ==
    [text |-> text, type |-> type, end_char |-> end_char, tag |-> TagNE]

\* what the parser returns for a summary: its sentences and its entities
NlpStale == [sentences |-> <<Sentence(TreeStale)>>, ents |-> <<>>]
NlpNested == [sentences |-> <<Sentence(TreeNested)>>,
              ents |-> <<Entity(We, TypePERSON, 19)>>]
NlpLeaf == [sentences |-> <<Sentence(TreeLeaf)>>, ents |-> <<>>]
NlpTwo == [sentences |-> <<Sentence(TreeS2), Sentence(TreeLeafComma)>>,
           ents |-> <<Entity(Wab, TypeORG, 7)>>]

NlpRaw == [sentences |-> <<Sentence(TreePair)>>,
           ents |-> <<Entity(Wab, TypeORG, 3)>>]

Item1 == [id |-> <<"u", "1">>, title |-> <<"t", "1">>,
          summary |-> <<NlpStale, NlpNested>>,
          document |-> <<<<"a", " ", "b">>, Wd, <<"a", " ", "b", " ", "c", " ", "d", " ", "e">>>>]
Item2 == [id |-> <<"u", "2">>, title |-> <<"t", "2">>,
          summary |-> <<NlpLeaf, NlpTwo>>,
          document |-> <<Wx, <<"a", ",", "b", " ", "c">>>>]
Item3 == [id |-> <<"u", "3">>, title |-> <<"t", "3">>,
          summary |-> <<NlpStale>>,
          document |-> <<<<"x", " ", "d">>>>]

\* the entity's text is cut from the raw summary ("a,b"), the parse renders the
\* sentence token by token ("a , b")
Item4 == [id |-> <<"u", "4">>, title |-> <<"t", "4">>,
          summary |-> <<NlpRaw>>,
          document |-> <<<<"a", ",", "b", " ", "c">>>>]

ItemPool == {Item1, Item2, Item3, Item4}
RunStopwords == {Wa}
DefaultPrefix == <<"q", "a">>
PkgPrefix == <<"t", "v", "p", "l">>

\* utils.SPAN_TYPES, and the value of --span_type that stands for all of them
SPAN_TYPES == <<TagNE, TagNP, TagAP, TagVP, TagS>>
TypeALL == <<"A", "L", "L">>

\* a session: AnswerExtractor.extract() with args.span_type, or extract_answer or
\* QAConstruct.__call__ called twice in a row on the same object with the same
\* arguments
RunArgs ==
    {[entry |-> "extract", span_type |-> tg] :
        tg \in {TypeALL} \cup {SPAN_TYPES[i] : i \in 1..Len(SPAN_TYPES)}}
    \cup {[entry |-> "extract_answer", span_type |-> tg] :
            tg \in {TagNP, TagVP, TagS, TagNE}}
    \cup {[entry |-> "__call__", id_prefix |-> p] : p \in {DefaultPrefix, PkgPrefix}}

\* the calls of extract_answer or __call__ a session makes, in order; extract()
\* makes none for a single span type, see Extract
Calls(a) ==
    IF a.entry = "extract"
      THEN IF Upper(a.span_type) = TypeALL
             THEN [i \in 1..Len(SPAN_TYPES) |-> [span_type |-> SPAN_TYPES[i]]]
             ELSE <<>>
    ELSE IF a.entry = "extract_answer"
      THEN <<[span_type |-> a.span_type], [span_type |-> a.span_type]>>
    ELSE <<[id_prefix |-> a.id_prefix], [id_prefix |-> a.id_prefix]>>

PathOf(a) ==
    IF "id_prefix" \in DOMAIN a THEN "package"
    ELSE IF a.span_type = TagNE THEN "ne" ELSE "pos"

Init ==
    /\ args \in RunArgs
    /\ call = IF args.entry = "extract" THEN 0 ELSE 1
    /\ path = IF args.entry = "extract" THEN "none" ELSE PathOf(Calls(args)[1])
    /\ history = <<>>
    /\ limit \in {ShortLimit, MidLimit, NoLimit}
    /\ data \in UNION {[1..k -> ItemPool] : k \in 1..MaxDocs}
    /\ pc = IF args.entry = "extract" THEN "extract" ELSE "summary"
    /\ ret = NotCalled
    /\ item = 0 /\ idx = 0 /\ cand = 0
    /\ spans = <<>> /\ clauses = <<>> /\ summaries = <<>> /\ qas = <<>>
    /\ cloze = <<>> /\ count = 0 /\ answer_start = Unbound /\ output = NoFile
    /\ qa_data = <<>> /\ last = Idle

\* the call that runs, with its span_type or its id_prefix
Call == Calls(args)[call]
Current == data[item + 1]
CurrentNlp == Current.summary[idx + 1]
Script == path \in {"pos", "ne"}

Bound(v) == [bound |-> TRUE, value |-> v]

\* to_qa
to_qa(id, is_impossible, q, answer, answer_type, start, answer_id) ==
    [id |-> id, is_impossible |-> is_impossible, question |-> q,
     answers |-> <<[text |-> answer, type |-> answer_type, start |-> start,
                    id |-> answer_id]>>]

\* f'{item["url"]}_{count}' and f"{id_prefix}_{len(self.data)}"
\* an id without the counter
MakeIdUncounted(parent, n) == parent \o <<"_">> \o IntStr(0)

MakeId(parent, n) == parent \o <<"_">> \o IntStr(n)

PosSpan(text, tag) == [text |-> text, type |-> tag, end_char |-> 0, tag |-> tag]

\* the run ends at the summary sentence, one without spans or clauses included
PosSummaryEndsOnEmpty ==
    /\ path = "pos" /\ pc = "summary" /\ idx < Len(Current.summary)
    /\ pc' = "aborted" /\ last' = [kind |-> "skipped"]
    /\ UNCHANGED <<idx, spans, clauses, cand, summaries>>
    /\ UNCHANGED <<call, history, args, ret, path, limit, data, item, qas, cloze, count,
                   answer_start, output, qa_data>>

\* --- script: one summary sentence of extract_answer_pos ---------------------
PosSummary ==
    /\ path = "pos" /\ pc = "summary" /\ idx < Len(Current.summary)
    /\ LET text == get_summary(CurrentNlp)
           found == extract_pos_answers(CurrentNlp.sentences, Call.span_type)
           cl == extract_clauses_script(CurrentNlp)
       IN  IF Rejects(text, limit)
             THEN /\ pc' = "aborted" /\ last' = [kind |-> "parser_raised"]
                  /\ UNCHANGED <<idx, spans, clauses, cand, summaries>>
           ELSE IF Len(found) = 0 \/ Len(cl) = 0
             THEN /\ summaries' = Append(summaries, text)
                  /\ idx' = idx + 1 /\ last' = [kind |-> "skipped"]
                  /\ UNCHANGED <<pc, spans, clauses, cand>>
           ELSE /\ summaries' = Append(summaries, text)
                /\ spans' = [i \in 1..Len(found) |-> PosSpan(found[i], Call.span_type)]
                /\ clauses' = cl /\ cand' = 0 /\ pc' = "candidate"
                /\ last' = [kind |-> "parsed"]
                /\ UNCHANGED idx
    /\ UNCHANGED <<call, history, args, ret, path, limit, data, item, qas, cloze, count,
                   answer_start, output, qa_data>>

\* --- script: one summary sentence of extract_answer_ne ----------------------
NeSummary ==
    /\ path = "ne" /\ pc = "summary" /\ idx < Len(Current.summary)
    /\ LET text == get_summary(CurrentNlp)
           cl == extract_clauses_script(CurrentNlp)
       IN  IF Rejects(text, limit)
             THEN /\ pc' = "aborted" /\ last' = [kind |-> "parser_raised"]
                  /\ UNCHANGED <<idx, spans, clauses, cand, summaries>>
           ELSE IF Len(cl) = 0
             THEN /\ summaries' = Append(summaries, text)
                  /\ idx' = idx + 1 /\ last' = [kind |-> "skipped"]
                  /\ UNCHANGED <<pc, spans, clauses, cand>>
           ELSE /\ summaries' = Append(summaries, text)
                /\ spans' = CurrentNlp.ents
                /\ clauses' = cl /\ cand' = 0 /\ pc' = "candidate"
                /\ last' = [kind |-> "parsed"]
                /\ UNCHANGED idx
    /\ UNCHANGED <<call, history, args, ret, path, limit, data, item, qas, cloze, count,
                   answer_start, output, qa_data>>

\* what the script does with the aligner's result for one candidate: the span
\* path logs an exception and goes on with whatever answer_start holds, the
\* entity path lets the exception leave the run
ScriptStart(r, in_try) ==
    IF ~r.raised THEN Bound(r.start)
    ELSE IF in_try THEN answer_start
    ELSE Unbound

\* the test of the alignment result left out: nothing below -1 is ever returned
AlignFailedIgnored(start) == start < -1

AlignFailed(start) == start = -1

\* --- script: one candidate answer of the for loop over spans ----------------
ScriptCandidate ==
    /\ Script /\ pc = "candidate" /\ cand < Len(spans)
    /\ LET answer == spans[cand + 1]
           q == IF path = "pos" THEN ScriptPosQuestion(answer.text, clauses)
                ELSE ScriptNeQuestion(answer, clauses, CurrentNlp.sentences)
       IN  IF Len(answer.text) = 0
             THEN /\ last' = [kind |-> "empty"] /\ cand' = cand + 1
                  /\ UNCHANGED <<pc, qas, count, answer_start>>
           ELSE IF ~q.found
             THEN /\ last' = [kind |-> "no_question", answer |-> answer.text]
                  /\ cand' = cand + 1
                  /\ UNCHANGED <<pc, qas, count, answer_start>>
           ELSE LET r == get_answer_start_script(answer.text, q.text, Current.document,
                                                 RunStopwords, limit)
                    now == ScriptStart(r, path = "pos")
                IN  IF now = Unbound
                      THEN /\ pc' = "aborted"
                           /\ last' = [kind |-> "aligner_raised", answer |-> answer.text]
                           /\ UNCHANGED <<cand, qas, count, answer_start>>
                    ELSE IF AlignFailed(now.value)
                      THEN /\ last' = [kind |-> "dropped", answer |-> answer.text,
                                       question |-> q, raised |-> r.raised,
                                       clauses |-> clauses]
                           /\ answer_start' = now /\ cand' = cand + 1
                           /\ UNCHANGED <<pc, qas, count>>
                    ELSE /\ qas' = Append(qas,
                                to_qa(MakeId(Current.id, count), FALSE, q.text,
                                      answer.text, answer.type, now.value, idx))
                         /\ count' = count + 1
                         /\ answer_start' = now /\ cand' = cand + 1
                         /\ last' = [kind |-> "emitted", answer |-> answer.text,
                                     question |-> q, start |-> now.value,
                                     raised |-> r.raised, clauses |-> clauses,
                                     label |-> IF path = "pos" THEN PLACEHOLDER
                                               ELSE answer.type,
                                     context |-> Join(Current.document, <<" ">>)]
                         /\ UNCHANGED pc
    /\ UNCHANGED <<call, history, args, ret, path, limit, data, item, idx, spans, clauses,
                   summaries, cloze, output, qa_data>>

\* --- the for loop over spans ends: on to the next summary sentence ----------
ScriptNextSummary ==
    /\ Script /\ pc = "candidate" /\ cand = Len(spans)
    /\ pc' = "summary" /\ idx' = idx + 1
    /\ UNCHANGED <<call, history, args, ret, path, limit, data, item, spans, clauses, cand,
                   summaries, qas, cloze, count, answer_start, output, qa_data, last>>

\* the end of a document that leaves out the record of a document without pairs
ScriptEndItemSkipsEmpty ==
    /\ Script /\ pc = "summary" /\ idx = Len(Current.summary)
    /\ cloze' = IF Len(qas) = 0 THEN cloze
                ELSE Append(cloze, [title |-> Current.title, summary |-> summaries,
                                    context |-> Join(Current.document, <<" ">>),
                                    QA |-> qas])
    /\ item' = item + 1 /\ idx' = 0 /\ summaries' = <<>> /\ qas' = <<>>
    /\ pc' = IF item + 1 = Len(data) THEN "save" ELSE "summary"
    /\ UNCHANGED <<call, history, args, ret, path, limit, data, spans, clauses, cand, count,
                   answer_start, output, qa_data, last>>

\* --- script: the document's record is appended to cloze ---------------------
ScriptEndItem ==
    /\ Script /\ pc = "summary" /\ idx = Len(Current.summary)
    /\ cloze' = Append(cloze, [title |-> Current.title, summary |-> summaries,
                               context |-> Join(Current.document, <<" ">>),
                               QA |-> qas])
    /\ item' = item + 1 /\ idx' = 0 /\ summaries' = <<>> /\ qas' = <<>>
    /\ pc' = IF item + 1 = Len(data) THEN "save" ELSE "summary"
    /\ UNCHANGED <<call, history, args, ret, path, limit, data, spans, clauses, cand, count,
                   answer_start, output, qa_data, last>>

\* --- script: to_json writes the run's records -------------------------------
ScriptSave ==
    /\ Script /\ pc = "save"
    /\ output' = [written |-> TRUE, span_type |-> Call.span_type, records |-> cloze]
    /\ history' = Append(history, [call |-> Call, result |-> output'])
    /\ pc' = "done"
    /\ UNCHANGED <<call, args, ret, path, limit, data, item, idx, spans, clauses, cand,
                   summaries, qas, cloze, count, answer_start, qa_data, last>>

(***************************************************************************)
(* QAConstruct.__call__ and QADataset                                      *)
(***************************************************************************)
\* QAPair.__init__: the type is stored upper-cased
QAPair(id, article, q, answer, start, type, is_impossible) ==
    [id |-> id, article |-> article, question |-> q, answer |-> answer,
     start |-> start, type |-> Upper(type), is_impossible |-> is_impossible]

\* QADataset.append: self.data[entry.id] = entry, on a dict that keeps the order
\* of first insertion
QADatasetAppend(dataset, entry) ==
    IF \E i \in 1..Len(dataset) : dataset[i].id = entry.id
      THEN [i \in 1..Len(dataset) |->
              IF dataset[i].id = entry.id THEN entry ELSE dataset[i]]
      ELSE Append(dataset, entry)

\* keys: the spans of every tag of POS_TAGS in turn, then the entities
RECURSIVE PkgKeysFrom(_, _)
PkgKeysFrom(t, nlp) ==
    IF t > Len(POS_TAGS) THEN nlp.ents
    ELSE LET found == get_keys(nlp.sentences, POS_TAGS[t])
         IN  [i \in 1..Len(found) |-> PosSpan(found[i], POS_TAGS[t])]
             \o PkgKeysFrom(t + 1, nlp)

\* sum([len(key) for key in keys]): iterating the dict yields its keys, the tag
\* names, so the sum adds up the lengths of the names
RECURSIVE KeyNamesLength(_)
KeyNamesLength(t) ==
    IF t > Len(POS_TAGS) THEN Len(TagNE) ELSE Len(POS_TAGS[t]) + KeyNamesLength(t + 1)

\* --- package: one summary sentence ------------------------------------------
PkgSummary ==
    /\ path = "package" /\ pc = "summary" /\ idx < Len(Current.summary)
    /\ LET text == get_summary_nlp(CurrentNlp)
           cl == extract_clauses_pkg(CurrentNlp, S_THRESHOLD, COMMA_THRESHOLD, <<" ">>)
       IN  IF Rejects(text, limit)
             THEN /\ pc' = "raised" /\ last' = [kind |-> "parser_raised"]
                  /\ UNCHANGED <<idx, spans, clauses, cand>>
           ELSE IF KeyNamesLength(1) = 0 \/ Len(cl) = 0
             THEN /\ idx' = idx + 1 /\ last' = [kind |-> "skipped"]
                  /\ UNCHANGED <<pc, spans, clauses, cand>>
           ELSE /\ spans' = PkgKeysFrom(1, CurrentNlp)
                /\ clauses' = cl /\ cand' = 0 /\ pc' = "candidate"
                /\ last' = [kind |-> "parsed"]
                /\ UNCHANGED idx
    /\ UNCHANGED <<call, history, args, ret, path, limit, data, item, summaries, qas, cloze, count,
                   answer_start, output, qa_data>>

\* --- package: one candidate answer ------------------------------------------
PkgCandidate ==
    /\ path = "package" /\ pc = "candidate" /\ cand < Len(spans)
    /\ LET answer == spans[cand + 1]
           ne == answer.tag = TagNE
           q == IF ne THEN PkgNeQuestion(answer, clauses, CurrentNlp.sentences)
                ELSE PkgPosQuestion(answer.text, answer.tag, clauses)
       IN  IF Len(answer.text) = 0
             THEN /\ last' = [kind |-> "empty"] /\ cand' = cand + 1
                  /\ UNCHANGED <<pc, qa_data>>
           ELSE IF ~q.found
             THEN /\ last' = [kind |-> "no_question", answer |-> answer.text]
                  /\ cand' = cand + 1
                  /\ UNCHANGED <<pc, qa_data>>
           ELSE LET r == get_answer_start_pkg(answer.text, q.text, Current.document,
                                              RunStopwords, limit)
                IN  IF r.raised
                      THEN /\ pc' = "raised"
                           /\ last' = [kind |-> "aligner_raised", answer |-> answer.text]
                           /\ UNCHANGED <<cand, qa_data>>
                    ELSE IF AlignFailed(r.start)
                      THEN /\ last' = [kind |-> "dropped", answer |-> answer.text,
                                       question |-> q, raised |-> FALSE,
                                       clauses |-> clauses]
                           /\ cand' = cand + 1
                           /\ UNCHANGED <<pc, qa_data>>
                    ELSE /\ qa_data' = QADatasetAppend(qa_data,
                                QAPair(MakeId(IF ne THEN Call.id_prefix ELSE PkgPrefix,
                                              Len(qa_data)),
                                       Current.id \o <<"_", "_">> \o IntStr(r.id),
                                       q.text, answer.text, r.start,
                                       IF ne THEN answer.type
                                       ELSE POS_REPLACE(answer.tag),
                                       FALSE))
                         /\ cand' = cand + 1
                         /\ last' = [kind |-> "emitted", answer |-> answer.text,
                                     question |-> q, start |-> r.start,
                                     raised |-> FALSE, clauses |-> clauses,
                                     label |-> IF ne THEN answer.type
                                               ELSE POS_REPLACE(answer.tag),
                                     context |-> Join(Current.document, <<" ">>)]
                         /\ UNCHANGED pc
    /\ UNCHANGED <<call, history, args, ret, path, limit, data, item, idx, spans, clauses,
                   summaries, qas, cloze, count, answer_start, output>>

\* --- package: the loop over the keys ends -----------------------------------
PkgNextSummary ==
    /\ path = "package" /\ pc = "candidate" /\ cand = Len(spans)
    /\ pc' = "summary" /\ idx' = idx + 1
    /\ UNCHANGED <<call, history, args, ret, path, limit, data, item, spans, clauses, cand,
                   summaries, qas, cloze, count, answer_start, output, qa_data, last>>

\* --- package: the loop over the article's summary ends ----------------------
PkgNextArticle ==
    /\ path = "package" /\ pc = "summary" /\ idx = Len(Current.summary)
    /\ item' = item + 1 /\ idx' = 0
    /\ pc' = IF item + 1 = Len(data) THEN "return" ELSE "summary"
    /\ UNCHANGED <<call, history, args, ret, path, limit, data, spans, clauses, cand, summaries, qas,
                   cloze, count, answer_start, output, qa_data, last>>

\* --- package: return self.data ----------------------------------------------
PkgReturn ==
    /\ path = "package" /\ pc = "return"
    /\ ret' = [called |-> TRUE, data |-> qa_data]
    /\ history' = Append(history, [call |-> Call, result |-> ret'])
    /\ pc' = "done"
    /\ UNCHANGED <<call, args, path, limit, data, item, idx, spans, clauses, cand, summaries,
                   qas, cloze, count, answer_start, output, qa_data, last>>

\* --- script: AnswerExtractor.extract ----------------------------------------
\* "ALL" starts the loop over SPAN_TYPES. For any other value the test
\* self.span_type in utils.SPAN_TYPES reads an attribute the object never gets
\* (only self.args is set): the AttributeError is caught and logged, and extract
\* returns without a call of extract_answer.
Extract ==
    /\ pc = "extract"
    /\ IF Upper(args.span_type) = TypeALL
         THEN /\ call' = 1 /\ path' = PathOf(Calls(args)[1]) /\ pc' = "summary"
              /\ last' = [kind |-> "extracting"]
         ELSE /\ pc' = "done" /\ last' = [kind |-> "attribute_error"]
              /\ UNCHANGED <<call, path>>
    /\ UNCHANGED <<args, ret, limit, data, item, idx, spans, clauses, cand, summaries,
                   qas, cloze, count, answer_start, output, qa_data, history>>

\* --- the next call of the session: extract_answer for the next span type (an
\* exception of the call before was caught and logged in extract_answer), or the
\* same call once more. The locals start afresh; what the object holds stays.
NextCall ==
    /\ pc \in {"done", "aborted"} /\ call >= 1 /\ call < Len(Calls(args))
    /\ call' = call + 1 /\ path' = PathOf(Calls(args)[call + 1]) /\ pc' = "summary"
    /\ item' = 0 /\ idx' = 0 /\ cand' = 0 /\ spans' = <<>> /\ clauses' = <<>>
    /\ summaries' = <<>> /\ qas' = <<>> /\ cloze' = <<>> /\ count' = 0
    /\ answer_start' = Unbound
    /\ UNCHANGED <<args, ret, limit, data, output, qa_data, last, history>>

Next ==
    \/ Extract \/ NextCall
    \/ PosSummary \/ NeSummary \/ ScriptCandidate \/ ScriptNextSummary
    \/ ScriptEndItem \/ ScriptSave
    \/ PkgSummary \/ PkgCandidate \/ PkgNextSummary \/ PkgNextArticle \/ PkgReturn

Spec == Init /\ [][Next]_vars

(***************************************************************************)
(* Properties of the runs (under Spec)                                     *)
(***************************************************************************)
Running == pc \in {"summary", "candidate", "save", "return", "done", "aborted", "raised"}

\* a non-negative start is where the answer lies in the context
RoundTrip(context, start, answer) ==
    start >= 0 => Slice(context, start, start + Len(answer)) = answer

RoundTripQAs(list, context) ==
    \A i \in 1..Len(list) :
        RoundTrip(context, list[i].answers[1].start, list[i].answers[1].text)

\* the joined context of the article a package pair names in its article field
ArticleContext(pair) ==
    LET d == CHOOSE d \in {data[i] : i \in 1..Len(data)} :
                SubSeq(pair.article, 1, Len(d.id) + 2) = d.id \o <<"_", "_">>
    IN  Join(d.document, <<" ">>)

\* C1: round trip. For every QA pair emitted by any extraction path, with
\* context the document's segments joined by a single space, a non-negative
\* start satisfies context[start : start + len(answer)] == answer.
C1_RoundTrip ==
    Running =>
        /\ RoundTripQAs(qas, Join(Current.document, <<" ">>))
        /\ \A k \in 1..Len(cloze) : RoundTripQAs(cloze[k].QA, cloze[k].context)
        /\ \A i \in 1..Len(qa_data) :
              RoundTrip(ArticleContext(qa_data[i]), qa_data[i].start, qa_data[i].answer)

NoFailedStartIn(list) == \A i \in 1..Len(list) : list[i].answers[1].start # -1

\* C2: no QA pair whose start equals -1 is present in the output collection,
\* after any sequence of documents, sentences and candidate answers: a candidate
\* whose alignment fails is dropped.
C2_NoFailedAlignmentKept ==
    Running =>
        /\ NoFailedStartIn(qas)
        /\ \A k \in 1..Len(cloze) : NoFailedStartIn(cloze[k].QA)
        /\ output.written =>
              \A k \in 1..Len(output.records) : NoFailedStartIn(output.records[k].QA)
        /\ \A i \in 1..Len(qa_data) : qa_data[i].start # -1

\* a candidate has just been dropped for failed alignment while pairs emitted
\* earlier are held
C2_Witness ==
    /\ Running /\ last.kind = "dropped" /\ ~last.raised
    /\ (Len(qas) > 0 \/ Len(qa_data) > 0)

\* C9: if clause C contains answer A at first index i, the question equals
\* C[0:i] + L + C[i+len(A):], L being the placeholder token for span answers and
\* the entity's type for named-entity answers, in the span path and the entity
\* path alike.
C9_FirstOccurrenceReplaced ==
    (Running /\ last.kind = "emitted" /\ last.question.from = "clause") =>
        LET C == last.question.source
            A == last.answer
            i == Find(C, A)
        IN  /\ i # -1
            /\ last.question.text =
                  Slice(C, 0, i) \o last.label \o Slice(C, i + Len(A), Len(C))

\* C10: the question is built from the first clause, shortest first, that
\* contains the answer: no clause strictly shorter than the clause used contains
\* the answer.
C10_ShortestContainingClause ==
    (Running /\ last.kind \in {"emitted", "dropped"} /\ last.question.from = "clause") =>
        \A j \in 1..Len(last.clauses) :
            Len(last.clauses[j]) < Len(last.question.source) =>
                ~Contains(last.clauses[j], last.answer)

\* C11: if the answer occurs as a literal substring in no clause and, for a named
\* entity, not in the rendered text of the fallback sentence either, no question
\* is produced and no pair is emitted: every question that reaches the aligner
\* was built from a clause or sentence that contains the answer.
C11_NoMatchNoQuestion ==
    (Running /\ last.kind \in {"emitted", "dropped"}) =>
        Contains(last.question.source, last.answer)

(***************************************************************************)
(* The span extractors and the S-clause passes exercised on single trees   *)
(***************************************************************************)
SpanTags == {TagNUM, TagNP, TagAP, TagVP, TagS}
Thresholds == {S_THRESHOLD - 1, S_THRESHOLD}
SingleTrees == TreePool \cup {TreeStale, TreePair}

InitTree ==
    /\ pc = "tree"
    /\ args \in [tree : SingleTrees, pos_tag : SpanTags, threshold : Thresholds]
    /\ ret = [extract_pos |-> NotCalled, get_pos |-> NotCalled,
              extract_s_clauses |-> NotCalled,
              extract_clauses_constituent |-> NotCalled,
              extract_clauses |-> NotCalled, extract_clauses_pkg |-> NotCalled]
    /\ RunIdle

CallExtractPos ==
    /\ pc = "tree" /\ ret.extract_pos = NotCalled
    /\ ret' = [ret EXCEPT !.extract_pos =
                  [spans |-> extract_pos(args.tree, args.pos_tag)]]
    /\ UNCHANGED <<pc, args>> /\ UNCHANGED runVars

CallGetPos ==
    /\ pc = "tree" /\ ret.get_pos = NotCalled
    /\ ret' = [ret EXCEPT !.get_pos =
                  [spans |-> get_pos(args.tree, args.pos_tag, <<" ">>)]]
    /\ UNCHANGED <<pc, args>> /\ UNCHANGED runVars

CallExtractSClauses ==
    /\ pc = "tree" /\ ret.extract_s_clauses = NotCalled
    /\ ret' = [ret EXCEPT !.extract_s_clauses =
                  [clauses |-> extract_s_clauses(args.tree, args.threshold)]]
    /\ UNCHANGED <<pc, args>> /\ UNCHANGED runVars

CallClausesConstituent ==
    /\ pc = "tree" /\ ret.extract_clauses_constituent = NotCalled
    /\ ret' = [ret EXCEPT !.extract_clauses_constituent =
                  [clauses |-> extract_clauses_constituent(args.tree, args.threshold,
                                                           <<" ">>)]]
    /\ UNCHANGED <<pc, args>> /\ UNCHANGED runVars

\* the parse of a summary that is the one sentence args.tree
OneSentence == [sentences |-> <<Sentence(args.tree)>>]

CallExtractClauses ==
    /\ pc = "tree" /\ ret.extract_clauses = NotCalled
    /\ ret' = [ret EXCEPT !.extract_clauses =
                  [clauses |-> extract_clauses_script(OneSentence)]]
    /\ UNCHANGED <<pc, args>> /\ UNCHANGED runVars

CallExtractClausesPkg ==
    /\ pc = "tree" /\ ret.extract_clauses_pkg = NotCalled
    /\ ret' = [ret EXCEPT !.extract_clauses_pkg =
                  [clauses |-> extract_clauses_pkg(OneSentence, args.threshold,
                                                   COMMA_THRESHOLD, <<" ">>)]]
    /\ UNCHANGED <<pc, args>> /\ UNCHANGED runVars

NextTree ==
    \/ CallExtractPos \/ CallGetPos \/ CallExtractSClauses \/ CallClausesConstituent
    \/ CallExtractClauses \/ CallExtractClausesPkg

SpecTree == InitTree /\ [][NextTree]_vars

(***************************************************************************)
(* Properties of the span extractors and S-clause passes (under SpecTree)  *)
(***************************************************************************)
\* the positions of a tree's nodes: the child indexes on the way from the root
RECURSIVE Positions(_)
Positions(node) ==
    {<<>>} \cup UNION {{<<i>> \o p : p \in Positions(node.children[i])} :
                        i \in 1..Len(node.children)}

RECURSIVE Subtree(_, _)
Subtree(node, p) == IF p = <<>> THEN node ELSE Subtree(node.children[p[1]], Tail(p))

LeafText(node) == Join(leaf_labels(node), <<" ">>)

Occurrences(list, t) == Cardinality({i \in 1..Len(list) : list[i] = t})

\* list holds, for every position of where, the leaf text of the subtree there,
\* as often as positions of where have that text, and nothing else
OnePerPosition(list, tree, where) ==
    /\ Len(list) = Cardinality(where)
    /\ \A p \in where :
          Occurrences(list, LeafText(Subtree(tree, p)))
            = Cardinality({q \in where :
                              LeafText(Subtree(tree, q)) = LeafText(Subtree(tree, p))})

TagMatches(tree, tag) ==
    {p \in Positions(tree) :
        ~is_leaf(Subtree(tree, p)) /\ Upper(Subtree(tree, p).label) = tag}

\* C12: for every parse tree and tag the span extractor returns exactly one span,
\* the space-joined leaf text, per non-leaf node whose uppercased label equals
\* the tag, nested matches included, and captures no node with another label.
C12_OneSpanPerMatchingNode ==
    /\ ret.extract_pos # NotCalled =>
          OnePerPosition(ret.extract_pos.spans, args.tree,
                         TagMatches(args.tree, args.pos_tag))
    /\ ret.get_pos # NotCalled =>
          OnePerPosition(ret.get_pos.spans, args.tree,
                         TagMatches(args.tree, args.pos_tag))

\* both extractors have returned the spans of a noun phrase nested in another
C12_Witness ==
    /\ args.tree = TreeS4 /\ args.pos_tag = TagNP
    /\ ret.extract_pos # NotCalled /\ ret.get_pos # NotCalled
    /\ Len(ret.extract_pos.spans) = 3 /\ Len(ret.get_pos.spans) = 3

IsProperPrefix(p, q) == Len(p) < Len(q) /\ SubSeq(q, 1, Len(p)) = p

\* in list, the span of every matching descendant comes before the span of its
\* matching ancestor (decided where the two texts differ)
DescendantsFirst(list, tree, where) ==
    \A p, q \in where :
        (IsProperPrefix(p, q) /\ LeafText(Subtree(tree, p)) # LeafText(Subtree(tree, q)))
        => \E i, j \in 1..Len(list) :
              /\ i < j
              /\ list[i] = LeafText(Subtree(tree, q))
              /\ list[j] = LeafText(Subtree(tree, p))

\* C13: in the span extractor's result the span of every matching descendant
\* precedes the span of its matching ancestor (post-order).
C13_DescendantsBeforeAncestors ==
    /\ ret.extract_pos # NotCalled =>
          DescendantsFirst(ret.extract_pos.spans, args.tree,
                           TagMatches(args.tree, args.pos_tag))
    /\ ret.get_pos # NotCalled =>
          DescendantsFirst(ret.get_pos.spans, args.tree,
                           TagMatches(args.tree, args.pos_tag))

SMatches(tree, threshold) ==
    {p \in Positions(tree) :
        /\ Subtree(tree, p).label = <<"S">>
        /\ ~is_leaf(Subtree(tree, p))
        /\ Len(leaf_labels(Subtree(tree, p))) > threshold}

\* C14: the S-clause pass emits one clause for each subtree labeled "S" whose
\* leaf count is strictly greater than s_threshold, nested ones included, none
\* for an "S" subtree of exactly s_threshold leaves and none for another label.
C14_OneClausePerLargeS ==
    /\ ret.extract_s_clauses # NotCalled =>
          OnePerPosition(ret.extract_s_clauses.clauses, args.tree,
                         SMatches(args.tree, args.threshold))
    /\ ret.extract_clauses_constituent # NotCalled =>
          OnePerPosition(ret.extract_clauses_constituent.clauses, args.tree,
                         SMatches(args.tree, args.threshold))

\* both passes have returned the three clauses of an "S" subtree and the two
\* "S" subtrees nested in it
C14_Witness ==
    /\ args.tree = TreeNested /\ args.threshold = S_THRESHOLD
    /\ ret.extract_s_clauses # NotCalled /\ ret.extract_clauses_constituent # NotCalled
    /\ Len(ret.extract_s_clauses.clauses) = 3
    /\ Len(ret.extract_clauses_constituent.clauses) = 3

\* every result returned so far for the tree is the empty list
SpansEmpty ==
    /\ ret.extract_pos # NotCalled => ret.extract_pos.spans = <<>>
    /\ ret.get_pos # NotCalled => ret.get_pos.spans = <<>>

SClausesEmpty ==
    /\ ret.extract_s_clauses # NotCalled => ret.extract_s_clauses.clauses = <<>>
    /\ ret.extract_clauses_constituent # NotCalled =>
          ret.extract_clauses_constituent.clauses = <<>>

ClausesEmpty ==
    /\ ret.extract_clauses # NotCalled => ret.extract_clauses.clauses = <<>>
    /\ ret.extract_clauses_pkg # NotCalled => ret.extract_clauses_pkg.clauses = <<>>

HasComma(text) == \E i \in 1..Len(text) : text[i] = ","

\* C15: for a parse tree that is a single leaf the clause extractor returns the
\* empty list and the span extractor returns the empty list for any tag, whatever
\* the leaf's text, a text with commas included.
C15_SingleLeafYieldsNothing ==
    is_leaf(args.tree) => (SpansEmpty /\ SClausesEmpty /\ ClausesEmpty)

\* C15, amended: for a single leaf the span extractor and the S-clause pass return
\* the empty list for any tag and any text, and the clause extractor returns the
\* empty list when the leaf's text holds no comma (a text with commas is split
\* into comma clauses).
C15_SingleLeafWithoutComma ==
    is_leaf(args.tree) =>
        /\ SpansEmpty /\ SClausesEmpty
        /\ ~HasComma(args.tree.label) => ClausesEmpty

\* the extractors have all returned for a single leaf without a comma
C15_Witness ==
    /\ is_leaf(args.tree) /\ ~HasComma(args.tree.label)
    /\ ret.extract_pos # NotCalled /\ ret.get_pos # NotCalled
    /\ ret.extract_clauses # NotCalled /\ ret.extract_clauses_pkg # NotCalled
    /\ ret.extract_clauses.clauses = <<>>

(***************************************************************************)
(* Further properties of the runs (under Spec)                             *)
(***************************************************************************)
\* C16: a failure in one summary sentence (the annotator rejecting it, or the
\* aligner raising for one candidate) only skips that sentence or candidate: the
\* run goes on with the other sentences and documents, so the pairs produced for
\* them reach the persisted output.
C16_FailureOnlySkips ==
    (Running /\ last.kind \in {"parser_raised", "aligner_raised"}) =>
        pc \in {"summary", "candidate"}

\* the clause list and the candidate answers of the summary sentence at hand
ClausesAtHand ==
    IF path = "package"
      THEN extract_clauses_pkg(CurrentNlp, S_THRESHOLD, COMMA_THRESHOLD, <<" ">>)
      ELSE extract_clauses_script(CurrentNlp)

CandidatesAtHand ==
    IF path = "package" THEN PkgKeysFrom(1, CurrentNlp)
    ELSE IF path = "ne" THEN CurrentNlp.ents
    ELSE extract_pos_answers(CurrentNlp.sentences, Call.span_type)

PairsUnchanged == qas' = qas /\ qa_data' = qa_data /\ cloze' = cloze /\ count' = count

\* C17: a summary sentence for which the clause list is empty, or for which there
\* are no candidate answers, contributes zero QA pairs, and processing continues
\* with the next summary sentence.
C17_EmptyExtractionSkips ==
    [][ /\ (/\ pc = "summary" /\ idx < Len(Current.summary)
            /\ ~Rejects(get_summary(CurrentNlp), limit)
            /\ (Len(ClausesAtHand) = 0 \/ Len(CandidatesAtHand) = 0))
           => /\ PairsUnchanged
              /\ \/ pc' = "summary" /\ idx' = idx + 1
                 \/ pc' = "candidate" /\ spans' = <<>> /\ idx' = idx
        /\ (pc = "candidate" /\ spans = <<>>)
           => (PairsUnchanged /\ pc' = "summary" /\ idx' = idx + 1) ]_vars

\* a pair has been emitted for the second summary sentence of a document whose
\* first summary sentence, a single word, has no clauses
C17_Witness ==
    /\ Running /\ last.kind = "emitted" /\ idx = 1
    /\ Len(extract_clauses_script(Current.summary[1])) = 0
    /\ Len(extract_clauses_pkg(Current.summary[1], S_THRESHOLD, COMMA_THRESHOLD,
                               <<" ">>)) = 0

\* the number of pairs in the first k records of the script's output
RECURSIVE PairsIn(_, _)
PairsIn(records, k) == IF k = 0 THEN 0 ELSE PairsIn(records, k - 1) + Len(records[k].QA)

\* C18: every emitted QA id has the form "{parent_id}_{n}", parent_id being the id
\* supplied for the pair (the document's url in the script, the caller's
\* id_prefix in QAConstruct) and n a counter that starts at 0 for each output and
\* goes up by exactly 1 per emitted pair, so the ids of one output are distinct.
C18_IdsCountFromZero ==
    (Running /\ call >= 1) =>
        /\ \A k \in 1..Len(cloze) : \A i \in 1..Len(cloze[k].QA) :
              cloze[k].QA[i].id = data[k].id \o <<"_">> \o IntStr(PairsIn(cloze, k - 1) + i - 1)
        /\ \A i \in 1..Len(qas) :
              qas[i].id = Current.id \o <<"_">> \o IntStr(PairsIn(cloze, Len(cloze)) + i - 1)
        /\ \A i \in 1..Len(qa_data) :
              qa_data[i].id = Call.id_prefix \o <<"_">> \o IntStr(i - 1)

RECURSIVE PairsOf(_)
PairsOf(records) == IF Len(records) = 0 THEN <<>>
                    ELSE records[1].QA \o PairsOf(Tail(records))

\* the ids and offsets a finished call produced, in order: of the file the script
\* wrote, or of the dataset the constructor returned
IdsAndOffsets(result) ==
    IF "records" \in DOMAIN result
      THEN LET pairs == PairsOf(result.records)
           IN  [i \in 1..Len(pairs) |-> <<pairs[i].id, pairs[i].answers[1].start>>]
      ELSE [i \in 1..Len(result.data) |-> <<result.data[i].id, result.data[i].start>>]

\* C19: determinism. Two runs on identical input with a deterministic annotator
\* produce the identical sequence of QA ids and identical offsets, also when the
\* second run reuses the extractor or constructor object of the first.
C19_RepeatedRunsAgree ==
    \A i, j \in 1..Len(history) :
        history[i].call = history[j].call =>
            IdsAndOffsets(history[i].result) = IdsAndOffsets(history[j].result)

\* the span types of the outputs written so far, in order
WrittenTypes == [i \in 1..Len(history) |-> history[i].result.span_type]

\* the span types extract() is to run for
RequestedTypes == IF args.span_type = TypeALL THEN SPAN_TYPES ELSE <<args.span_type>>

\* C20: AnswerExtractor.extract runs extraction for exactly the specified span
\* type when args.span_type is one supported type, and for every supported span
\* type when it is "ALL"; one output is written per extracted span type. (Stated
\* for an annotator that rejects nothing.)
C20_ExtractRunsRequestedTypes ==
    (args.entry = "extract" /\ pc = "done" /\ call = Len(Calls(args)) /\ limit = NoLimit)
        => WrittenTypes = RequestedTypes

(***************************************************************************)
(* Entries of the data package: Entry (data/utils.py), Article             *)
(* (data/doc.py) and QAPair (data/qa.py), and the lookup of a field by     *)
(* name with entry(key) and entry[key]                                     *)
(***************************************************************************)
\* FIELD, DOC_FIELD and QA_FIELD: the field names
FIELD == <<"id">>
DOC_FIELD == <<FIELD[1], "title", "summary", "context">>
QA_FIELD == <<FIELD[1], "article", "question", "answer", "start", "type", "is_impossible">>

\* a str passed as key, and the default key None
Str(name) == [str |-> name]
None == [none |-> TRUE]

\* Field.id, DocField.title, QAField.start, ...: the names are declared with
\* @property, and read on the class (not on an instance) such a name is the
\* property object itself; its getter does not run
ClassAttribute(name) == [property |-> name]

\* the value patterns of the match statements, in the order of the case clauses
CasesOf(class) ==
    IF class = "Entry" THEN FIELD
    ELSE IF class = "Article" THEN DOC_FIELD
    ELSE QA_FIELD

\* Entry.__init__, Article.__init__ (QAPair.__init__ is QAPair above)
Entry(id) == [class |-> "Entry", fields |-> [id |-> id]]
Article(id, title, summary, context) ==
    [class |-> "Article",
     fields |-> [id |-> id, title |-> title, summary |-> summary, context |-> context]]
QAPairEntry(pair) == [class |-> "QAPair", fields |-> pair]

\* to_dict: the field names with the values of to_list
to_dict(e) == [dict |-> e.fields]

\* match key: case Field.<name>: ... is the comparison key == Field.<name>
FirstCase(e, key) ==
    LET cases == CasesOf(e.class)
        hits == {i \in 1..Len(cases) : key = ClassAttribute(cases[i])}
    IN  IF hits = {} THEN 0 ELSE CHOOSE i \in hits : \A j \in hits : i <= j

\* __call__(key): the matching field, else the whole dictionary
entry_call(e, key) ==
    IF FirstCase(e, key) # 0
      THEN [value |-> e.fields[CasesOf(e.class)[FirstCase(e, key)]]]
      ELSE to_dict(e)

\* __getitem__(key): the matching field, else None
entry_getitem(e, key) ==
    IF FirstCase(e, key) # 0
      THEN [value |-> e.fields[CasesOf(e.class)[FirstCase(e, key)]]]
      ELSE None

\* entries and keys the lookups are exercised on
Id00 == <<"i", "d", "_", "0", "0">>
LookupEntries ==
    {Entry(Id00), Entry(<<"e">>),
     Article(<<"u", "1">>, <<"t", "1">>, <<<<"a", " ", "b">>>>, <<<<"a", " ", "b">>, <<"d">>>>),
     QAPairEntry(QAPair(<<"q", "a", "_", "0">>, <<"u", "1", "_", "_", "0">>,
                        <<"P", " ", "b">>, <<"a">>, 0, <<"n", "p">>, FALSE))}
LookupKeys ==
    {Str(QA_FIELD[i]) : i \in 1..Len(QA_FIELD)}
    \cup {Str(DOC_FIELD[i]) : i \in 1..Len(DOC_FIELD)}
    \cup {Str("other"), None}

InitLookup ==
    /\ pc = "lookup"
    /\ args \in [entry : LookupEntries, key : LookupKeys]
    /\ ret = [call |-> NotCalled, getitem |-> NotCalled]
    /\ RunIdle

CallEntry ==
    /\ pc = "lookup" /\ ret.call = NotCalled
    /\ ret' = [ret EXCEPT !.call = entry_call(args.entry, args.key)]
    /\ UNCHANGED <<pc, args>> /\ UNCHANGED runVars

GetItemEntry ==
    /\ pc = "lookup" /\ ret.getitem = NotCalled /\ args.key # None
    /\ ret' = [ret EXCEPT !.getitem = entry_getitem(args.entry, args.key)]
    /\ UNCHANGED <<pc, args>> /\ UNCHANGED runVars

NextLookup == CallEntry \/ GetItemEntry

SpecLookup == InitLookup /\ [][NextLookup]_vars

\* the key is the name of one of the entry's fields
NamesField(e, key) == \E name \in DOMAIN e.fields : key = Str(name)

\* C21: field lookup by name returns the field's value: for an entry e with id
\* 'id_00', e('id') and e['id'] both return 'id_00', and for an Article or QAPair
\* indexing with any of its field names returns the stored value of that field
\* rather than None or the whole dictionary.
C21_LookupReturnsField ==
    NamesField(args.entry, args.key) =>
        /\ ret.call # NotCalled =>
              ret.call = [value |-> args.entry.fields[args.key.str]]
        /\ ret.getitem # NotCalled =>
              ret.getitem = [value |-> args.entry.fields[args.key.str]]

(***************************************************************************)
(* Comparison of QAPair values (data/qa.py)                                *)
(***************************************************************************)
\* ord(c) of a lower-case letter, relative to "a"
Ord(c) == CHOOSE i \in 1..Len(Lowercase) : Lowercase[i] = c

RECURSIVE StrLess(_, _)
\* a < b on str: the first differing character decides, a proper prefix is less
StrLess(a, b) ==
    IF b = <<>> THEN FALSE
    ELSE IF a = <<>> THEN TRUE
    ELSE IF Head(a) # Head(b) THEN Ord(Head(a)) < Ord(Head(b))
    ELSE StrLess(Tail(a), Tail(b))

\* QAPair.__eq__: all four of article, question, answer and start are equal
qa_eq(self, value) ==
    /\ self.article = value.article
    /\ self.question = value.question
    /\ self.answer = value.answer
    /\ self.start = value.start

\* QAPair.__ne__: True when all four differ
qa_ne(self, value) ==
    /\ self.article # value.article
    /\ self.question # value.question
    /\ self.answer # value.answer
    /\ self.start # value.start

\* QAPair.__lt__: an if/elif chain, True as soon as one field is less
qa_lt(self, value) ==
    IF StrLess(self.article, value.article) THEN TRUE
    ELSE IF StrLess(self.question, value.question) THEN TRUE
    ELSE IF StrLess(self.answer, value.answer) THEN TRUE
    ELSE IF self.start < value.start THEN TRUE
    ELSE FALSE

\* QAPair.__gt__: the same chain with >
qa_gt(self, value) ==
    IF StrLess(value.article, self.article) THEN TRUE
    ELSE IF StrLess(value.question, self.question) THEN TRUE
    ELSE IF StrLess(value.answer, self.answer) THEN TRUE
    ELSE IF self.start > value.start THEN TRUE
    ELSE FALSE

\* QAPair.__cmp__
qa_cmp(self, value) ==
    IF qa_eq(self, value) THEN 0
    ELSE IF qa_gt(self, value) THEN 1
    ELSE -1

\* the pairs compared: every combination of two values per compared field
MaxStart == 1
CompareTexts == {<<"a">>, <<"a", "b">>}
ComparePairs ==
    {QAPair(<<"q", "a", "_", "0">>, article, q, answer, start, <<"n", "p">>, FALSE) :
        article \in CompareTexts, q \in CompareTexts, answer \in CompareTexts,
        start \in 0..MaxStart}

InitCompare ==
    /\ pc = "compare"
    /\ args \in [a : ComparePairs, b : ComparePairs]
    /\ ret = [eq |-> NotCalled, ne |-> NotCalled, lt |-> NotCalled,
              lt_swapped |-> NotCalled, gt |-> NotCalled, cmp |-> NotCalled]
    /\ RunIdle

\* a == b
CallEq ==
    /\ pc = "compare" /\ ret.eq = NotCalled
    /\ ret' = [ret EXCEPT !.eq = [value |-> qa_eq(args.a, args.b)]]
    /\ UNCHANGED <<pc, args>> /\ UNCHANGED runVars

\* a != b
CallNe ==
    /\ pc = "compare" /\ ret.ne = NotCalled
    /\ ret' = [ret EXCEPT !.ne = [value |-> qa_ne(args.a, args.b)]]
    /\ UNCHANGED <<pc, args>> /\ UNCHANGED runVars

\* a < b
CallLt ==
    /\ pc = "compare" /\ ret.lt = NotCalled
    /\ ret' = [ret EXCEPT !.lt = [value |-> qa_lt(args.a, args.b)]]
    /\ UNCHANGED <<pc, args>> /\ UNCHANGED runVars

\* b < a
CallLtSwapped ==
    /\ pc = "compare" /\ ret.lt_swapped = NotCalled
    /\ ret' = [ret EXCEPT !.lt_swapped = [value |-> qa_lt(args.b, args.a)]]
    /\ UNCHANGED <<pc, args>> /\ UNCHANGED runVars

\* a > b
CallGt ==
    /\ pc = "compare" /\ ret.gt = NotCalled
    /\ ret' = [ret EXCEPT !.gt = [value |-> qa_gt(args.a, args.b)]]
    /\ UNCHANGED <<pc, args>> /\ UNCHANGED runVars

\* a.__cmp__(b)
CallCmp ==
    /\ pc = "compare" /\ ret.cmp = NotCalled
    /\ ret' = [ret EXCEPT !.cmp = [value |-> qa_cmp(args.a, args.b)]]
    /\ UNCHANGED <<pc, args>> /\ UNCHANGED runVars

NextCompare == CallEq \/ CallNe \/ CallLt \/ CallLtSwapped \/ CallGt \/ CallCmp

SpecCompare == InitCompare /\ [][NextCompare]_vars

Holds(result) == result # NotCalled /\ result.value

\* C29: for any two QAPair values a and b, exactly one of (a == b) and (a != b)
\* is true: != is the logical negation of ==, where equality compares article,
\* question, answer and start.
C29_NeNegatesEq ==
    (ret.eq # NotCalled /\ ret.ne # NotCalled) => (ret.ne.value <=> ~ret.eq.value)

\* C30: the ordering on QAPair is a strict order consistent with equality: a < b
\* and b < a are never both true, a < a is false, and a < b implies not (a == b)
\* and not (a > b).
C30_StrictOrder ==
    /\ ~(Holds(ret.lt) /\ Holds(ret.lt_swapped))
    /\ args.a = args.b => ~Holds(ret.lt)
    /\ Holds(ret.lt) => ~Holds(ret.eq) /\ ~Holds(ret.gt)

(***************************************************************************)
(* Which segment the aligners choose (under SpecAlign)                     *)
(***************************************************************************)
\* the 1-based positions of the segments that contain the answer
Containing(answer, context) ==
    {i \in 1..Len(context) : Contains(context[i], answer)}

\* the script aligner's score of segment i
ScoreOf(i) ==
    ScriptScore(args.context[i], q_tokens_of(args.question, args.STOPWORDS),
                args.STOPWORDS)

\* the earliest of the segments containing the answer with the lowest score
LowestEarliest ==
    LET C == Containing(args.answer, args.context)
    IN  CHOOSE k \in C :
            \A j \in C : ScoreOf(k) < ScoreOf(j) \/ (ScoreOf(k) = ScoreOf(j) /\ k <= j)

\* C22: the script aligner chooses, among the context segments that contain the
\* answer, a segment with the lowest relevance score, and on equal scores the
\* earliest such segment in document order: the offset it returns is the one
\* computed from that segment.
C22_ScriptChoosesLowestEarliest ==
    ScriptReturned /\ Containing(args.answer, args.context) # {} =>
        ret.script.start =
            ScriptOffset(args.answer, args.context[LowestEarliest], args.context)

\* two segments contain the answer "b", the second has the lower score for the
\* question "b", and the offset returned lies in the second
C22_Witness ==
    /\ ScriptReturned
    /\ args.context = <<<<"b", " ", "b">>, <<"a", " ", "b">>>>
    /\ args.answer = <<"b">> /\ args.question = <<"b">>
    /\ ScoreOf(1) > ScoreOf(2)
    /\ ret.script.start = 6

\* the package aligner's score of segment i
PkgScoreOf(i) == PkgScore(args.context[i], q_tokens_of(args.question, args.STOPWORDS))

\* C23: the package aligner chooses, among the context segments that contain the
\* answer, a segment with the highest relevance score; segments that do not
\* contain the answer are never chosen while a segment containing it exists.
C23_PkgChoosesHighestContaining ==
    PkgReturned /\ Containing(args.answer, args.context) # {} =>
        LET k == ret.package.id + 1
        IN  /\ k \in Containing(args.answer, args.context)
            /\ \A j \in Containing(args.answer, args.context) :
                  PkgScoreOf(k) >= PkgScoreOf(j)

\* the lemma set Q with the question words dropped whose text is a stop word
QWithoutStopwords ==
    LET keep(w) == w.text \notin args.STOPWORDS
        kept == SelectSeq(Words(args.question), keep)
    IN  [i \in 1..Len(kept) |-> kept[i].lemma]

\* the scores of segment i when stop words count for nothing
ScriptScoreWithoutStopwords(i) ==
    LET ws == Words(args.context[i])
    IN  Cardinality({n \in 1..Len(ws) :
            ws[n].text \notin args.STOPWORDS /\ InList(ws[n].lemma, QWithoutStopwords)})
PkgScoreWithoutStopwords(i) == PkgScore(args.context[i], QWithoutStopwords)

\* C24: stopwords never influence alignment: a question word whose text is in
\* the stopword set is not in the lemma set Q, and a segment word whose text is
\* in the stopword set adds nothing to that segment's relevance score, so the
\* segment chosen is the one chosen with the stop words left out of the scores.
C24_StopwordsNeverInfluence ==
    /\ ScriptReturned /\ Containing(args.answer, args.context) # {} =>
          LET C == Containing(args.answer, args.context)
              k == CHOOSE k \in C : \A j \in C :
                      \/ ScriptScoreWithoutStopwords(k) < ScriptScoreWithoutStopwords(j)
                      \/ /\ ScriptScoreWithoutStopwords(k) = ScriptScoreWithoutStopwords(j)
                         /\ k <= j
          IN  ret.script.start = ScriptOffset(args.answer, args.context[k], args.context)
    /\ PkgReturned =>
          LET S == 1..Len(args.context)
              k == CHOOSE k \in S : \A j \in S :
                      \/ PkgScoreWithoutStopwords(k) > PkgScoreWithoutStopwords(j)
                      \/ /\ PkgScoreWithoutStopwords(k) = PkgScoreWithoutStopwords(j)
                         /\ k <= j
          IN  ret.package.id = k - 1

(***************************************************************************)
(* Accumulation of the pairs during a run (under Spec)                     *)
(***************************************************************************)
\* the pairs accumulated so far: the constructor's dataset, or the pairs of the
\* script's finished records followed by those of the record in the making
Collection == IF path = "package" THEN qa_data ELSE PairsOf(cloze) \o qas

\* a step that emits a pair
Emits == pc = "candidate" /\ cand' = cand + 1 /\ last'.kind = "emitted"

\* C25: output accumulation is append-only: each emit increases the size of the
\* QA collection by exactly one, and a pair once added is never removed, replaced
\* or modified by any later emit, skip or failure during the run (including in
\* QADataset, which stores pairs in a mapping keyed by id).
C25_AppendOnly ==
    [][ (path = "package" \/ call' = call) =>
            IF Emits
              THEN /\ Len(Collection') = Len(Collection) + 1
                   /\ SubSeq(Collection', 1, Len(Collection)) = Collection
              ELSE Collection' = Collection ]_vars

\* the constructor, called a second time, has just added a pair to the pairs of
\* the first call
C25_Witness ==
    /\ path = "package" /\ call = 2 /\ pc = "candidate" /\ last.kind = "emitted"
    /\ Len(history) = 1 /\ Len(history[1].result.data) >= 1
    /\ Len(qa_data) > Len(history[1].result.data)

\* C26: in the script span path (extract_answer_pos), the offset stored in an
\* emitted pair is the value the aligner returned for that same candidate answer
\* and question: if the aligner raises for a candidate, no pair is emitted for it
\* and no offset computed for an earlier candidate is reused.
C26_OffsetFromOwnAlignment ==
    (path = "pos" /\ pc = "candidate" /\ cand >= 1 /\ last.kind = "emitted") =>
        LET r == get_answer_start_script(last.answer, last.question.text,
                                         Current.document, RunStopwords, limit)
        IN  ~r.raised /\ last.start = r.start

\* the pair's article field is "{d.id}__{k}"
NamesSegment(pair, d, k) == pair.article = d.id \o <<"_", "_">> \o IntStr(k)

\* the answer lies at the pair's start in segment k of article d
AnswerAt(pair, d, k) ==
    /\ k < Len(d.document)
    /\ pair.start >= 0
    /\ Slice(d.document[k + 1], pair.start, pair.start + Len(pair.answer)) = pair.answer

\* C27: for every pair emitted by QAConstruct, the context-segment index recorded
\* in the pair's article field ("{article.id}__{context_id}") names a segment s of
\* that article with s[start : start+len(answer)] == answer, i.e. the stored start
\* is a valid offset of the answer inside the recorded segment.
C27_StartLiesInRecordedSegment ==
    path = "package" =>
        \A n \in 1..Len(qa_data) :
            /\ \E i \in 1..Len(data) : \E k \in 0..Len(data[i].document) :
                  NamesSegment(qa_data[n], data[i], k)
            /\ \A i \in 1..Len(data) : \A k \in 0..Len(data[i].document) :
                  NamesSegment(qa_data[n], data[i], k) => AnswerAt(qa_data[n], data[i], k)

\* a pair whose answer lies in the third segment of its article, not at its start
C27_Witness ==
    /\ path = "package" /\ pc = "candidate" /\ last.kind = "emitted"
    /\ \E n \in 1..Len(qa_data) : \E i \in 1..Len(data) :
          /\ NamesSegment(qa_data[n], data[i], 2)
          /\ qa_data[n].start > 0
          /\ AnswerAt(qa_data[n], data[i], 2)

\* the records a finished call of the script wrote
Written(h) == history[h].result.records

\* C28: a completed script run (extract_answer_pos or extract_answer_ne) yields
\* exactly one output record per input document, in input order, including
\* documents that produce zero QA pairs; each record's summary list has one
\* rendered entry per input summary sentence (also for skipped sentences) and its
\* context is the document's segments joined by a single space.
C28_OneRecordPerDocument ==
    \A h \in 1..Len(history) :
        "records" \in DOMAIN history[h].result =>
            /\ Len(Written(h)) = Len(data)
            /\ \A k \in 1..Len(Written(h)) :
                  /\ k <= Len(data)
                  /\ Written(h)[k].title = data[k].title
                  /\ Written(h)[k].context = Join(data[k].document, <<" ">>)
                  /\ Len(Written(h)[k].summary) = Len(data[k].summary)
                  /\ \A j \in 1..Len(data[k].summary) :
                        j <= Len(Written(h)[k].summary)
                        => Written(h)[k].summary[j] = get_summary(data[k].summary[j])

\* a completed run over two documents, the first without a pair and the second
\* with one
C28_Witness ==
    /\ Script /\ pc = "done" /\ Len(history) >= 1
    /\ "records" \in DOMAIN history[1].result
    /\ Len(data) = 2 /\ Len(Written(1)) = 2
    /\ Len(Written(1)[1].QA) = 0 /\ Len(Written(1)[2].QA) > 0

====
